---- MODULE Spec2Model ----
(***************************************************************************)
(* Help-request backend (cancel / return / refund requests for a Shopify   *)
(* store).  Two specifications share this module:                          *)
(*                                                                         *)
(*   Spec        the request store and its HTTP handlers: customer create  *)
(*               (check-then-insert, two database statements), the public  *)
(*               open-request check, admin PATCH and the Shopify cancel /  *)
(*               refund actions seen from the store, under the partial     *)
(*               unique index idx_help_requests_one_open_per_order.        *)
(*   SpecRefund  one run of POST /:id/shopify/refund through               *)
(*               refundFullOrder / refundPartialOrder / executeRefund,     *)
(*               with the request body, the order and the provider's       *)
(*               answers drawn from bounded sets.                          *)
(*                                                                         *)
(* Strings that the code inspects character by character (order numbers)   *)
(* are sequences of one-character strings.  Money is an integer number of  *)
(* thousandths of a currency unit (mills), so that both the cent rounding  *)
(* and the 0.001 threshold of executeRefund are exact.                     *)
(***************************************************************************)
EXTENDS Integers, Sequences, FiniteSets, TLC

VARIABLES
    requests,      \* help_requests table: sequence of rows, id = index
    pc,            \* per customer connection: position in its handler
    body,          \* per customer connection: order_number of the request in hand
    response,      \* per customer connection: the HTTP response sent
    rival,         \* per customer connection: creates for the same order seen in flight
    rf,            \* state of one POST /:id/shopify/refund run (SpecRefund)
    now,           \* the database clock, now()
    messages,      \* chat_messages table: sequence of rows, id = index
    mail,          \* the notification dispatches and how each has settled
    reply,         \* the last answer of a chat, admin or auth handler
    tokens,        \* refresh_tokens table: token_hash -> row
    loggedOut,     \* refresh tokens POST /auth/logout has answered for
    feed,          \* the live feed of one GET /chat/:requestId/stream caller
    refunds        \* refunds the provider has created for the order

vars == <<requests, pc, body, response, rival, rf, now, messages, mail, reply,
          tokens, loggedOut, feed, refunds>>

\* the variables of the auth specification
authVars == <<tokens, loggedOut>>

\* the variables of the chat specifications
chatVars == <<now, messages, mail, reply>>

----------------------------------------------------------------------------
(* Bounds of the model *)

\* rows the help_requests table may hold
MaxRequests == 2

\* concurrent customer connections
Customers == {"c1", "c2"}

\* order_number values customers send (body.order_number, query order_number)
OrderInputs ==
    { <<"1","0","0","1">>,
      <<"#","1","0","0","1">>,
      <<" ","1","0","0","1"," ">>,
      <<" ","#","1","0","0","1">>,
      <<"4","2">>,
      <<" ">> }

----------------------------------------------------------------------------
(* Strings *)

RECURSIVE TrimStart(_)
TrimStart(s) ==
    IF s # <<>> /\ Head(s) = " " THEN TrimStart(Tail(s)) ELSE s

RECURSIVE TrimEnd(_)
TrimEnd(s) ==
    IF s # <<>> /\ s[Len(s)] = " " THEN TrimEnd(SubSeq(s, 1, Len(s) - 1)) ELSE s

\* String.prototype.trim
Trim(s) == TrimEnd(TrimStart(s))

\* s.replace(/^#/, '')
ReplaceLeadingHash(s) ==
    IF s # <<>> /\ Head(s) = "#" THEN Tail(s) ELSE s

\* the normalisation with the trim() call left out
NormalizeWithoutTrim(s) == ReplaceLeadingHash(s)

\* orderNumber.replace(/^#/, '').trim()
NormalizeOrderNumber(s) == Trim(ReplaceLeadingHash(s))

\* create: body.order_number.replace(/^#/, '').trim() || body.order_number
CreateOrderNumber(s) ==
    IF NormalizeOrderNumber(s) # <<>> THEN NormalizeOrderNumber(s) ELSE s

\* GET /check: (req.query.order_number).trim(), then hasOpenRequestForOrder's own
\* normalisation of it
CheckOrderNumber(s) == NormalizeOrderNumber(Trim(s))

\* findOrderByName: the order name queried at the provider, `#${normalized}`
ShopifyOrderName(s) == <<"#">> \o NormalizeOrderNumber(s)

----------------------------------------------------------------------------
(* Request store *)

HelpRequestStatus == {"pending", "in_progress", "approved", "rejected", "completed"}

\* OPEN_STATUSES with 'approved' left out
OpenStatusesWithoutApproved == {"pending", "in_progress"}

OPEN_STATUSES == {"pending", "in_progress", "approved"}

\* the index created without its WHERE clause: unique over all rows
InIndexWithoutWhere(status) == TRUE

\* the WHERE clause of idx_help_requests_one_open_per_order
InOpenIndex(status) == status \notin {"completed", "rejected"}

\* the table without the unique index (migration 001 not applied)
NoIndexViolation(rows, self, order_number, status) == FALSE

\* would a row (order_number, status) at position self (0: a new row) violate
\* the partial unique index, given the other rows?
IndexViolation(rows, self, order_number, status) ==
    /\ InOpenIndex(status)
    /\ \E i \in 1..Len(rows) :
          /\ i # self
          /\ rows[i].order_number = order_number
          /\ InOpenIndex(rows[i].status)

hasOpenRequestForOrder(rows, orderNumber) ==
    LET normalized == NormalizeOrderNumber(orderNumber)
    IN  \E i \in 1..Len(rows) :
           /\ rows[i].order_number \in {normalized, <<"#">> \o normalized}
           /\ rows[i].status \in OPEN_STATUSES

NoResponse == [status |-> 0, has_open_request |-> FALSE]

Reply(code) == [status |-> code, has_open_request |-> FALSE]

\* the state of rf outside a refund run
RfNone == [pc |-> "none"]

\* no chat handler has answered yet
NoReply == [status |-> 0]

\* the chat tables and the mailer before any chat traffic
ChatIdle ==
    /\ now = 0
    /\ messages = <<>>
    /\ mail = {}
    /\ reply = NoReply

\* no live feed has been asked for
FeedNone ==
    [pc |-> "none", id |-> 0, interval |-> FALSE, polls |-> <<>>,
     lastMessageId |-> 0, written |-> <<>>, ended |-> FALSE,
     writtenAtEnd |-> 0, closed |-> FALSE, polled |-> FALSE, skew |-> 0]

\* no refresh token has been issued and nobody has logged out
AuthIdle ==
    /\ tokens = <<>>
    /\ loggedOut = {}

----------------------------------------------------------------------------
(* Customer handlers.  Each await on the database is one step; a connection  *)
(* keeps the last response it received until it calls again.                 *)

\* POST /help-requests before create(body): 400 on a missing field, 409 when
\* hasOpenRequestForOrder finds an open request, 0 when the handler goes on
CreateCheckStatus(rows, o) ==
    IF Trim(o) = <<>> THEN 400
    ELSE IF hasOpenRequestForOrder(rows, o) THEN 409
    ELSE 0

\* create(body): the table after the INSERT (status defaults to 'pending');
\* the unique index refuses the row when an open one holds its order_number
create(rows, o) ==
    IF IndexViolation(rows, 0, CreateOrderNumber(o), "pending")
    THEN rows
    ELSE Append(rows, [order_number |-> CreateOrderNumber(o), status |-> "pending"])

\* POST /help-requests from create(body) on: 201 with the row, or the catch
\* clause's 500 when the INSERT threw
CreateInsertStatus(rows, o) ==
    IF IndexViolation(rows, 0, CreateOrderNumber(o), "pending") THEN 500 ELSE 201

\* GET /help-requests/check
CheckReply(rows, q) ==
    IF Trim(q) = <<>> THEN Reply(400)
    ELSE [status |-> 200,
          has_open_request |-> hasOpenRequestForOrder(rows, Trim(q))]

\* creates for the same stored order number that have passed the open-request
\* check and have not inserted yet
InFlight(c, o) ==
    {d \in Customers \ {c} :
        pc[d] = "insert" /\ CreateOrderNumber(body[d]) = CreateOrderNumber(o)}

\* c starts a new call: what it raced with before is forgotten
Forget(c) == [d \in Customers |-> IF d = c THEN {} ELSE rival[d] \ {c}]

\* POST /help-requests, up to and including hasOpenRequestForOrder
CreateCheck(c, o) ==
    /\ pc[c] = "idle"
    /\ IF CreateCheckStatus(requests, o) # 0
       THEN /\ response' = [response EXCEPT ![c] = Reply(CreateCheckStatus(requests, o))]
            /\ rival' = Forget(c)
            /\ UNCHANGED <<pc, body, authVars, feed, refunds>>
       ELSE /\ Len(requests) + Cardinality({d \in Customers : pc[d] = "insert"})
                 < MaxRequests
            /\ pc' = [pc EXCEPT ![c] = "insert"]
            /\ body' = [body EXCEPT ![c] = o]
            /\ response' = [response EXCEPT ![c] = NoResponse]
            /\ rival' = [d \in Customers |->
                           IF d = c THEN InFlight(c, o)
                           ELSE IF d \in InFlight(c, o) THEN Forget(c)[d] \cup {c}
                           ELSE Forget(c)[d]]
    /\ UNCHANGED <<requests, rf, chatVars, authVars, feed, refunds>>

\* POST /help-requests, from create(body) to the response
CreateInsert(c) ==
    /\ pc[c] = "insert"
    /\ requests' = create(requests, body[c])
    /\ response' = [response EXCEPT ![c] = Reply(CreateInsertStatus(requests, body[c]))]
    /\ pc' = [pc EXCEPT ![c] = "idle"]
    /\ body' = [body EXCEPT ![c] = <<>>]
    /\ UNCHANGED <<rival, rf, chatVars, authVars, feed, refunds>>

\* GET /help-requests/check
Check(c, q) ==
    /\ pc[c] = "idle"
    /\ response' = [response EXCEPT ![c] = CheckReply(requests, q)]
    /\ rival' = Forget(c)
    /\ UNCHANGED <<requests, pc, body, rf, chatVars, authVars, feed, refunds>>

----------------------------------------------------------------------------
(* Admin handlers as the store sees them (the caller holds a valid access    *)
(* token).  Each runs one UPDATE statement.                                  *)

\* the UPDATE of update(id, body) is refused: the row's new status would put a
\* second open row for its order_number into the unique index
UpdateRefused(rows, id, status) ==
    /\ status # "undefined"
    /\ IndexViolation(rows, id, rows[id].order_number, status)

\* update(id, body): the table after the UPDATE; "undefined" is a body
\* without status
update(rows, id, status) ==
    IF id > Len(rows) \/ status = "undefined" \/ UpdateRefused(rows, id, status)
    THEN rows
    ELSE [rows EXCEPT ![id].status = status]

\* PATCH /help-requests/:id: 404 for an unknown id, 500 when update threw
PatchStatus(rows, id, status) ==
    IF id > Len(rows) THEN 404
    ELSE IF UpdateRefused(rows, id, status) THEN 500
    ELSE 200

\* PATCH /help-requests/:id
Patch(id, status) ==
    /\ requests' = update(requests, id, status)
    /\ UNCHANGED <<pc, body, response, rival, rf, chatVars, authVars, feed, refunds>>

\* what the provider side of a cancel or refund action does
ProviderOutcomes == {"ok", "order_not_found", "rejected_422", "rejected_400", "failed"}

\* POST /help-requests/:id/shopify/cancel: the request is updated to
\* completed after cancelOrder returned, and in no other case
ShopifyCancel(id, outcome) ==
    /\ requests' = IF outcome = "ok" THEN update(requests, id, "completed")
                   ELSE requests
    /\ UNCHANGED <<pc, body, response, rival, rf, chatVars, authVars, feed, refunds>>

\* POST /help-requests/:id/shopify/refund: the request is updated to
\* completed after the refund call returned, and in no other case
ShopifyRefund(id, outcome) ==
    /\ requests' = IF outcome = "ok" THEN update(requests, id, "completed")
                   ELSE requests
    /\ UNCHANGED <<pc, body, response, rival, rf, chatVars, authVars, feed, refunds>>

----------------------------------------------------------------------------

Init ==
    /\ requests = <<>>
    /\ pc = [c \in Customers |-> "idle"]
    /\ body = [c \in Customers |-> <<>>]
    /\ response = [c \in Customers |-> NoResponse]
    /\ rival = [c \in Customers |-> {}]
    /\ rf = RfNone
    /\ ChatIdle
    /\ AuthIdle
    /\ feed = FeedNone
    /\ refunds = 0

Next ==
    \/ \E c \in Customers, o \in OrderInputs : CreateCheck(c, o)
    \/ \E c \in Customers : CreateInsert(c)
    \/ \E c \in Customers, q \in OrderInputs : Check(c, q)
    \/ \E id \in 1..(Len(requests) + 1),
          st \in HelpRequestStatus \cup {"undefined"} : Patch(id, st)
    \/ \E id \in 1..(Len(requests) + 1), out \in ProviderOutcomes :
          ShopifyCancel(id, out)
    \/ \E id \in 1..(Len(requests) + 1), out \in ProviderOutcomes :
          ShopifyRefund(id, out)

Spec == Init /\ [][Next]_vars

----------------------------------------------------------------------------
(* Properties of the request store (specification Spec) *)

Last(rows) == rows[Len(rows)]

\* two order-number strings name the same order: they agree once trimmed,
\* stripped of a leading '#' and trimmed again, as GET /check normalises them
SameOrder(a, b) == CheckOrderNumber(a) = CheckOrderNumber(b)

IsOpen(row) == row.status \in {"pending", "in_progress", "approved"}

NoOpenRequestFor(o) ==
    \A i \in 1..Len(requests) :
        SameOrder(requests[i].order_number, o) => ~IsOpen(requests[i])

\* C1: in every reachable state no two rows with the same stored order_number
\* both have a status in {pending, in_progress, approved}.
C1_OneOpenRequestPerOrder ==
    \A i, j \in 1..Len(requests) :
        (i # j /\ requests[i].order_number = requests[j].order_number)
            => ~(IsOpen(requests[i]) /\ IsOpen(requests[j]))

\* C1 witness: an order number with a closed and an open row, after the index
\* has refused the INSERT of a racing create (500).
C1_Witness ==
    /\ \E i, j \in 1..Len(requests) :
          /\ requests[i].order_number = requests[j].order_number
          /\ ~IsOpen(requests[i]) /\ IsOpen(requests[j])
    /\ \E c \in Customers : response[c].status = 500

\* C2 (as claimed): of two creates for the same order that both passed the
\* open-request check before either inserted, once both are answered exactly
\* one got 201 and the other 409.
C2_RaceAnswered201And409 ==
    \A c \in Customers : \A d \in rival[c] :
        (pc[c] = "idle" /\ pc[d] = "idle")
            => {response[c].status, response[d].status} = {201, 409}

\* C3: in every reachable state, a create for an order none of whose stored
\* requests is open (the open one was completed or rejected, or there never
\* was one) passes the open-request check, is answered 201 and appends a
\* pending row for that order.
C3_CreateAfterTerminalSucceeds ==
    \A o \in OrderInputs :
        (Trim(o) # <<>> /\ NoOpenRequestFor(o))
            => /\ CreateCheckStatus(requests, o) = 0
               /\ CreateInsertStatus(requests, o) = 201
               /\ Len(create(requests, o)) = Len(requests) + 1
               /\ SubSeq(create(requests, o), 1, Len(requests)) = requests
               /\ Last(create(requests, o)).status = "pending"
               /\ SameOrder(Last(create(requests, o)).order_number, o)

\* C3 witness: a completed or rejected row, a later pending row for the same
\* order number, and a create answered 201.
C3_Witness ==
    /\ \E i, j \in 1..Len(requests) :
          /\ i < j
          /\ requests[i].order_number = requests[j].order_number
          /\ requests[i].status \in {"completed", "rejected"}
          /\ requests[j].status = "pending"
    /\ \E c \in Customers : response[c].status = 201

\* C4: in every reachable state GET /check answers has_open_request = TRUE
\* exactly when some stored request for the queried order has status pending,
\* in_progress or approved.
C4_CheckReportsOpenRequest ==
    \A q \in OrderInputs :
        Trim(q) # <<>>
            => /\ CheckReply(requests, q).status = 200
               /\ CheckReply(requests, q).has_open_request =
                     (\E i \in 1..Len(requests) :
                         /\ SameOrder(requests[i].order_number, q)
                         /\ IsOpen(requests[i]))

\* C4 witness: one check answered TRUE while the request was open, a later
\* one answered FALSE after the request was PATCHed to completed.
C4_Witness ==
    /\ Len(requests) = 1
    /\ requests[1].status = "completed"
    /\ response["c1"] = [status |-> 200, has_open_request |-> TRUE]
    /\ response["c2"] = [status |-> 200, has_open_request |-> FALSE]

\* the three spellings of order 1001 that the specification names
Forms1001 ==
    { <<"1","0","0","1">>, <<"#","1","0","0","1">>, <<" ","1","0","0","1"," ">> }

\* C5: "#1001", "1001" and " 1001 " resolve to the same order number "1001":
\* in every reachable state a create with any of them stores order_number
\* "1001" or is refused, the open-request check gives the same answer for all
\* three (called from POST / or from GET /check), and the provider is asked
\* for order name "#1001".
C5_ThreeFormsOneOrder ==
    \A f \in Forms1001 :
        /\ create(requests, f) # requests
              => Last(create(requests, f)).order_number = <<"1","0","0","1">>
        /\ \A g \in Forms1001 :
              /\ CreateCheckStatus(requests, f) = CreateCheckStatus(requests, g)
              /\ CheckReply(requests, f) = CheckReply(requests, g)
        /\ ShopifyOrderName(f) = <<"#","1","0","0","1">>

\* C5 witness: creates sent as " 1001 " and as "#1001" are both past the
\* check and were recognised as being for the same order.
C5_Witness ==
    /\ pc["c1"] = "insert" /\ body["c1"] = <<" ","1","0","0","1"," ">>
    /\ pc["c2"] = "insert" /\ body["c2"] = <<"#","1","0","0","1">>
    /\ rival["c1"] = {"c2"}

----------------------------------------------------------------------------
(* POST /help-requests/:id/shopify/refund, one run (specification            *)
(* SpecRefund).  Amounts are mills; an absent number is the empty sequence,  *)
(* a given one a sequence of length one.  In a transaction the provider       *)
(* suggests, parent_id 0, amount -1 and gateway "null" stand for a missing    *)
(* field.                                                                     *)

\* entries body.refundLineItems may hold
MaxRefundLineItems == 2

\* transactions the provider's calculate answer may hold
MaxTransactions == 3

\* order.line_items of the order the request is for: id -> quantity
OrderLineItems == (1 :> 2) @@ (2 :> 1)

\* entries of body.refundLineItems; line item 3 is not on the order
RefundLineItemInputs == [lineItemId : {1, 2, 3}, quantity : {0, 1, 3}]

\* body.refundAmount
RefundAmounts == {<<>>, <<-500>>, <<0>>, <<1000>>, <<1012>>, <<2001>>}

\* transactions of the provider's calculate answer, before their parent_id
SuggestedShapes ==
    [parent_id : {1}, amount : {0, 500, 1000}, gateway : {"shopify_payments"}]
    \cup { [parent_id |-> 0, amount |-> 1000, gateway |-> "shopify_payments"],
           [parent_id |-> 1, amount |-> -1, gateway |-> "shopify_payments"],
           [parent_id |-> 1, amount |-> 1000, gateway |-> "null"] }

SeqsUpTo(S, n) == UNION { [1..k -> S] : k \in 0..n }

\* the calculate answers: the i-th transaction refers to parent i
SuggestedTransactions ==
    { [i \in 1..Len(sh) |->
          [sh[i] EXCEPT !.parent_id = IF @ = 0 THEN 0 ELSE i]] :
      sh \in SeqsUpTo(SuggestedShapes, MaxTransactions) }

\* quantity kept as requested, not capped by the order's
RequestedQuantity(a, b) == a

\* Math.min
Min(a, b) == IF a < b THEN a ELSE b

\* Math.max
Max(a, b) == IF a > b THEN a ELSE b

\* Math.abs
Abs(a) == IF a < 0 THEN -a ELSE a

\* Math.round(x * 100) / 100 for x = num / den mills, den > 0: the nearest
\* whole cent, halves upwards, as mills
RoundToCents(num, den) == 10 * ((2 * num + 10 * den) \div (20 * den))

\* the route's manualAmount
manualAmount(refundAmount) ==
    IF refundAmount # <<>> /\ refundAmount[1] > 0 THEN refundAmount ELSE <<>>

\* the loop of refundPartialOrder over the entries left, items so far in acc
RECURSIVE PartialItems(_, _)
PartialItems(entries, acc) ==
    IF entries = <<>> THEN [error |-> FALSE, items |-> acc]
    ELSE LET e == Head(entries)
         IN  IF e.quantity <= 0 THEN PartialItems(Tail(entries), acc)
             ELSE IF e.lineItemId \notin DOMAIN OrderLineItems
                  THEN [error |-> TRUE, items |-> <<>>]
             ELSE LET qty == Min(e.quantity, OrderLineItems[e.lineItemId])
                  IN  IF qty > 0
                      THEN PartialItems(Tail(entries),
                              Append(acc, [line_item_id |-> e.lineItemId,
                                           quantity |-> qty]))
                      ELSE PartialItems(Tail(entries), acc)

\* refundPartialOrder up to its call of executeRefund
refundPartialOrder(refundLineItems) ==
    LET r == PartialItems(refundLineItems, <<>>)
    IN  IF refundLineItems = <<>> \/ r.error \/ r.items = <<>>
        THEN [error |-> TRUE, items |-> <<>>]
        ELSE r

\* refundFullOrder up to its call of executeRefund: every line item of the
\* order with its full quantity
refundFullOrder ==
    [error |-> FALSE,
     items |-> [i \in DOMAIN OrderLineItems |-> [line_item_id |-> i, quantity |-> OrderLineItems[i]]]]

\* every suggested transaction kept, whatever fields it lacks
CompleteOrNot(t) == TRUE

\* the filter of executeRefund: parent_id, amount and gateway are all there
Complete(t) == t.parent_id # 0 /\ t.amount # -1 /\ t.gateway # "null"

RECURSIVE SumAmounts(_)
SumAmounts(ts) ==
    IF ts = <<>> THEN 0 ELSE Head(ts).amount + SumAmounts(Tail(ts))

\* the scaling branch of executeRefund: every amount times manual / total,
\* rounded to cents; the rounding residual goes to the first transaction,
\* which is kept from going below zero
ScaledTransactions(ts, manual) ==
    LET suggestedTotal == SumAmounts(ts)
        scaled == [i \in 1..Len(ts) |->
                     [ts[i] EXCEPT
                        !.amount = RoundToCents(@ * manual, suggestedTotal)]]
        newTotal == SumAmounts(scaled)
        diff == RoundToCents(manual - newTotal, 1)
    IN  IF diff # 0
        THEN [scaled EXCEPT ![1].amount = Max(0, @ + diff)]
        ELSE scaled

\* the transactions executeRefund puts into the create request
RefundTransactions(suggested, manualRefundAmount) ==
    LET transactions == SelectSeq(suggested, Complete)
    IN  IF /\ manualRefundAmount # <<>>
           /\ manualRefundAmount[1] > 0
           /\ Len(transactions) > 0
        THEN LET suggestedTotal == SumAmounts(transactions)
             IN  IF /\ suggestedTotal > 0
                    /\ Abs(manualRefundAmount[1] - suggestedTotal) > 1
                 THEN ScaledTransactions(transactions, manualRefundAmount[1])
                 ELSE transactions
        ELSE transactions

\* the status the route's catch clause answers with
ErrorStatus(outcome) ==
    CASE outcome = "rejected_422" -> 422
      [] outcome = "rejected_400" -> 400
      [] OTHER -> 500

\* the run has answered
Done(code) == [rf EXCEPT !.pc = "done", !.code = code]

\* the run as the request arrives
RefundRuns ==
    [pc : {"start"},
     refundLineItems : [given : {TRUE},
                        entries : SeqsUpTo(RefundLineItemInputs, MaxRefundLineItems)]
                       \cup {[given |-> FALSE, entries |-> <<>>]},
     refundAmount : RefundAmounts,
     manualRefundAmount : {<<>>},
     items : {<<>>},
     suggested : {<<>>},
     transactions : {<<>>},
     sent : {{}},
     code : {0}]

\* the handler from its start to the calculate request of executeRefund:
\* getById, findOrderByName, manualAmount, then refundPartialOrder for a
\* non-empty refundLineItems array and refundFullOrder otherwise
RefundRoute(lookup) ==
    /\ rf.pc = "start"
    /\ rf' = IF requests = <<>> \/ lookup = "order_not_found" THEN Done(404)
             ELSE IF lookup = "failed" THEN Done(500)
             ELSE LET r == IF rf.refundLineItems.given
                              /\ Len(rf.refundLineItems.entries) > 0
                           THEN refundPartialOrder(rf.refundLineItems.entries)
                           ELSE refundFullOrder
                  IN  IF r.error THEN Done(500)
                      ELSE [rf EXCEPT
                              !.pc = "calculate",
                              !.manualRefundAmount = manualAmount(rf.refundAmount),
                              !.items = r.items,
                              !.sent = {"calculate"}]
    /\ UNCHANGED <<requests, pc, body, response, rival, chatVars, authVars, feed, refunds>>

\* the provider answers the calculate request with a refund payload:
\* executeRefund builds the create request and sends it.  The line items are
\* not read again and are forgotten here.
RefundCalculated(suggested) ==
    /\ rf.pc = "calculate"
    /\ rf' = [rf EXCEPT
                !.pc = "create",
                !.refundLineItems = [given |-> FALSE, entries |-> <<>>],
                !.items = <<>>,
                !.suggested = suggested,
                !.transactions = RefundTransactions(suggested, rf.manualRefundAmount),
                !.sent = {"calculate", "create"}]
    /\ UNCHANGED <<requests, pc, body, response, rival, chatVars, authVars, feed, refunds>>

\* the provider refuses the calculate request or answers without a payload
RefundCalculateFailed(outcome) ==
    /\ rf.pc = "calculate"
    /\ rf' = Done(ErrorStatus(outcome))
    /\ UNCHANGED <<requests, pc, body, response, rival, chatVars, authVars, feed, refunds>>

\* the provider answers the create request: the refund exists, or the call
\* is refused
RefundCreated(outcome) ==
    /\ rf.pc = "create"
    /\ rf' = IF outcome = "ok" THEN [rf EXCEPT !.pc = "update", !.sent = @ \cup {"created"}]
             ELSE Done(ErrorStatus(outcome))
    /\ refunds' = IF outcome = "ok" THEN refunds + 1 ELSE refunds
    /\ UNCHANGED <<requests, pc, body, response, rival, chatVars, authVars, feed>>

\* update(requestId, {status: 'completed', ...}) and the 200 answer
RefundUpdate ==
    /\ rf.pc = "update"
    /\ requests' = update(requests, 1, "completed")
    /\ rf' = Done(200)
    /\ UNCHANGED <<pc, body, response, rival, chatVars, authVars, feed, refunds>>

InitRefund ==
    /\ requests \in {<<>>} \cup
          { <<[order_number |-> <<"1","0","0","1">>, status |-> st]>> :
            st \in {"pending", "approved", "completed"} }
    /\ pc = [c \in Customers |-> "idle"]
    /\ body = [c \in Customers |-> <<>>]
    /\ response = [c \in Customers |-> NoResponse]
    /\ rival = [c \in Customers |-> {}]
    /\ rf \in RefundRuns
    /\ ChatIdle
    /\ AuthIdle
    /\ feed = FeedNone
    /\ refunds = 0

NextRefund ==
    \/ \E lookup \in {"ok", "order_not_found", "failed"} : RefundRoute(lookup)
    \/ \E suggested \in SuggestedTransactions : RefundCalculated(suggested)
    \/ \E out \in {"rejected_422", "rejected_400", "failed", "no_payload"} :
          RefundCalculateFailed(out)
    \/ \E out \in {"ok", "rejected_422", "rejected_400", "failed"} :
          RefundCreated(out)
    \/ RefundUpdate

SpecRefund == InitRefund /\ [][NextRefund]_vars

----------------------------------------------------------------------------
(* Properties of the refund run (specification SpecRefund) *)

\* a suggested transaction with its parent reference, amount and gateway
HasAllFields(t) == t.parent_id > 0 /\ t.amount >= 0 /\ t.gateway # "null"

\* the complete transactions of the calculate answer
SuggestedComplete == SelectSeq(rf.suggested, HasAllFields)

\* the create request has been sent
CreateSent == "create" \in rf.sent

\* the entry of body.refundLineItems names a line item of the order and asks
\* for a positive quantity
AskedOnOrder(e) == e.quantity > 0 /\ e.lineItemId \in DOMAIN OrderLineItems

\* body.refundLineItems names a line item that is not on the order
AbsentRequested ==
    /\ rf.refundLineItems.given
    /\ \E k \in 1..Len(rf.refundLineItems.entries) :
          rf.refundLineItems.entries[k].lineItemId \notin DOMAIN OrderLineItems

\* C6 (as claimed): whenever the create request is sent with a manual amount
\* M > 0, a non-empty set of complete suggested transactions of total S > 0
\* and |M - S| > 0.001, the amounts submitted sum to M rounded to cents.
C6_ScaledSumEqualsManual ==
    (/\ CreateSent
     /\ rf.refundAmount # <<>> /\ rf.refundAmount[1] > 0
     /\ SuggestedComplete # <<>>
     /\ SumAmounts(SuggestedComplete) > 0
     /\ Abs(rf.refundAmount[1] - SumAmounts(SuggestedComplete)) > 1)
    => SumAmounts(rf.transactions) = RoundToCents(rf.refundAmount[1], 1)

\* C7: whenever the create request is sent and the body gives no refund
\* amount, or a non-positive one (which the route ignores), or one within
\* 0.001 of the total of the complete suggested transactions, the transactions
\* submitted are exactly the complete suggested ones, amounts unchanged.
C7_SuggestedSubmittedUnchanged ==
    (/\ CreateSent
     /\ \/ rf.refundAmount = <<>>
        \/ rf.refundAmount[1] <= 0
        \/ Abs(rf.refundAmount[1] - SumAmounts(SuggestedComplete)) <= 1)
    => rf.transactions = SuggestedComplete

\* C7 witness: a manual amount of 2.001 against a suggested total of 2.00 whose
\* calculate answer also held an incomplete transaction; the create request
\* carries the two complete ones as suggested.
C7_Witness ==
    /\ CreateSent
    /\ rf.refundAmount = <<2001>>
    /\ Len(rf.suggested) = 3
    /\ rf.suggested[1].amount = 1000
    /\ rf.suggested[2].gateway = "null"
    /\ rf.suggested[3].amount = 1000
    /\ rf.transactions =
          << [parent_id |-> 1, amount |-> 1000, gateway |-> "shopify_payments"],
             [parent_id |-> 3, amount |-> 1000, gateway |-> "shopify_payments"] >>

\* C8: whenever a partial refund has sent its calculate request, the line
\* items sent are, in order, the requested entries that are on the order with
\* a quantity q > 0, each with the smaller of q and the order's quantity n.
C8_PartialQuantityIsMin ==
    (/\ rf.pc = "calculate"
     /\ rf.refundLineItems.given
     /\ rf.refundLineItems.entries # <<>>)
    => LET asked == SelectSeq(rf.refundLineItems.entries, AskedOnOrder)
       IN  /\ Len(rf.items) = Len(asked)
           /\ \A k \in 1..Len(asked) :
                 LET q == asked[k].quantity
                     n == OrderLineItems[asked[k].lineItemId]
                 IN  /\ rf.items[k].line_item_id = asked[k].lineItemId
                     /\ rf.items[k].quantity = IF q <= n THEN q ELSE n

\* C8 witness: 3 of line item 1 (the order has 2) and 1 of line item 2 were
\* requested; the calculate request asks for 2 and 1.
C8_Witness ==
    /\ rf.pc = "calculate"
    /\ rf.refundLineItems.entries =
          << [lineItemId |-> 1, quantity |-> 3], [lineItemId |-> 2, quantity |-> 1] >>
    /\ rf.items =
          << [line_item_id |-> 1, quantity |-> 2], [line_item_id |-> 2, quantity |-> 1] >>

\* C9 (as claimed): while the request body names a line item that is not on
\* the order, whatever its quantity, no calculate or create request has been
\* sent and the run ends in an error answer.
C9_AbsentLineItemRefused ==
    AbsentRequested =>
        /\ rf.sent = {}
        /\ rf.pc \in {"start", "done"}
        /\ rf.pc = "done" => rf.code >= 400

\* C10 (as claimed): a run whose body gives a refund amount <= 0 creates no
\* refund at the provider, does not update the request to completed and ends
\* in an error answer.
C10_NonPositiveAmountRejected ==
    (rf.refundAmount # <<>> /\ rf.refundAmount[1] <= 0) =>
        /\ "created" \notin rf.sent
        /\ rf.pc # "update"
        /\ rf.pc = "done" => rf.code >= 400

----------------------------------------------------------------------------
(* Chat (specification SpecChat): one customer connection creates the help   *)
(* request and then customer and admin post to its thread, read it and ask   *)
(* for the unread count, while the database clock advances.  Rows of         *)
(* help_requests carry the columns customer_email, created_at, processed_at  *)
(* (-1 is NULL), processed_by ("null" is NULL) and shopify_order_id (0 is    *)
(* NULL) here.                                                               *)

\* latest value of the database clock
MaxTime == 3

\* rows the chat_messages table may hold
MaxMessages == 3

\* String.prototype.toLowerCase on the letters the model's emails use
LowerOf(ch) ==
    CASE ch = "A" -> "a"
      [] ch = "B" -> "b"
      [] ch = "X" -> "x"
      [] OTHER -> ch

toLowerCase(s) == [i \in 1..Len(s) |-> LowerOf(s[i])]

\* body.customer_email of the request that is created
CustomerEmail == <<"A", "@", "x">>

\* the email query parameter; <<>> is a missing or empty one
EmailParams == { <<>>, <<"A","@","x">>, <<"a","@","X">>, <<"b","@","x">> }

\* what a caller presents: a bearer token in the Authorization header and a
\* token query parameter; "access" is a valid admin access token, "refresh" a
\* valid token of another type, "invalid" one that jwt.verify refuses
Credentials == [header : {"none", "access", "refresh", "invalid"},
                query : {"none", "access"}]

\* a middleware that reads the query token for every method
optionalAuthAnyMethod(method, cred) ==
    LET token == IF cred.header # "none" THEN cred.header ELSE cred.query
    IN  token = "access"

\* the router's optional-auth middleware: req.auth is set
optionalAuth(method, cred) ==
    LET token == IF cred.header # "none" THEN cred.header
                 ELSE IF method = "GET" THEN cred.query
                 ELSE "none"
    IN  token = "access"

\* requireAuth lets the call through
requireAuth(cred) == cred.header = "access"

\* the email parameter compared as it is, case included
EmailIdentical(email, row) == email = row.customer_email

\* the email parameter is that of the request, compared case-insensitively
EmailMatches(email, row) ==
    toLowerCase(email) = toLowerCase(row.customer_email)

\* req.body of POST /chat/:requestId/messages: a text, a blank text with an
\* attachment, a blank text alone
MessageContents ==
    { [body |-> <<"h","i">>, attachment |-> FALSE],
      [body |-> <<" ">>, attachment |-> TRUE],
      [body |-> <<" ">>, attachment |-> FALSE] }

\* a created_at that counts even when the two times are equal
NotBefore(t, threshold) == t >= threshold

\* created_at > threshold of the unread_count query
After(t, threshold) == t > threshold

\* getUnreadCountForAdmin(requestId)
getUnreadCountForAdmin(id) ==
    LET adminTimes == { messages[i].created_at : i \in
                          { j \in 1..Len(messages) :
                              messages[j].request_id = id /\ messages[j].sender = "admin" } }
    IN  IF adminTimes = {} /\ id > Len(requests) THEN 0
        ELSE LET threshold ==
                     IF adminTimes # {}
                     THEN CHOOSE t \in adminTimes : \A u \in adminTimes : u <= t
                     ELSE requests[id].created_at
             IN  Cardinality({ i \in 1..Len(messages) :
                                 /\ messages[i].request_id = id
                                 /\ messages[i].sender = "customer"
                                 /\ After(messages[i].created_at, threshold) })

\* notifications of a new request that the handler has waited for
AwaitedRequestMail(id) ==
    { [to |-> "admin", about |-> "request", id |-> id, outcome |-> "sent"],
      [to |-> "customer", about |-> "request", id |-> id, outcome |-> "sent"] }

\* the notifications POST /help-requests dispatches for a new request
RequestMail(id) ==
    { [to |-> "admin", about |-> "request", id |-> id, outcome |-> "pending"],
      [to |-> "customer", about |-> "request", id |-> id,
       outcome |-> "pending"] }

\* the notification POST /chat/:requestId/messages dispatches for a message
\* with a text: to the admin for a customer's, to the customer for an admin's
MessageMail(sender, content, id) ==
    IF Trim(content.body) = <<>> THEN {}
    ELSE { [to |-> IF sender = "customer" THEN "admin" ELSE "customer",
            about |-> "message", id |-> id, outcome |-> "pending"] }

\* now() moves on
Tick ==
    /\ now < MaxTime
    /\ now' = now + 1
    /\ UNCHANGED <<requests, pc, body, response, rival, rf, messages, mail, reply, authVars, feed, refunds>>

\* POST /help-requests from the one connection of this specification: both
\* database statements, the two notification dispatches and the answer
PostHelpRequest(o) ==
    /\ IF CreateCheckStatus(requests, o) # 0
       THEN /\ reply' = [status |-> CreateCheckStatus(requests, o)]
            /\ UNCHANGED <<requests, mail, authVars, feed, refunds>>
       ELSE /\ requests' =
                 LET rows == create(requests, o)
                 IN  IF rows = requests THEN requests
                     ELSE [rows EXCEPT ![Len(rows)] =
                             @ @@ [customer_email |-> CustomerEmail,
                                   created_at |-> now,
                                   processed_at |-> -1,
                                   processed_by |-> "null",
                                   shopify_order_id |-> 0]]
            /\ mail' = IF CreateInsertStatus(requests, o) = 201
                       THEN mail \cup RequestMail(Len(requests) + 1)
                       ELSE mail
            /\ reply' = [status |-> CreateInsertStatus(requests, o)]
    /\ UNCHANGED <<pc, body, response, rival, rf, now, messages, authVars, feed, refunds>>

\* the answer of POST /chat/:requestId/messages: 404, 401, 400 or 201
PostMessageStatus(id, cred, email, content) ==
    IF id > Len(requests) THEN 404
    ELSE IF ~optionalAuth("POST", cred)
            /\ ~(email # <<>> /\ EmailMatches(email, requests[id])) THEN 401
    ELSE IF Trim(content.body) = <<>> /\ ~content.attachment THEN 400
    ELSE 201

\* the sender POST /chat/:requestId/messages stores
PostMessageSender(cred) ==
    IF optionalAuth("POST", cred) THEN "admin" ELSE "customer"

\* createMessage(messageData): the table after the INSERT
createMessage(id, sender, content) ==
    Append(messages,
           [id |-> Len(messages) + 1,
            request_id |-> id,
            sender |-> sender,
            sender_id |-> IF sender = "admin" THEN "admin1" ELSE "null",
            body |-> Trim(content.body),
            attachment |-> content.attachment,
            created_at |-> now])

\* the chat_messages table after POST /chat/:requestId/messages
PostMessageStore(id, cred, email, content) ==
    IF PostMessageStatus(id, cred, email, content) = 201
    THEN createMessage(id, PostMessageSender(cred), content)
    ELSE messages

\* POST /chat/:requestId/messages
PostMessage(id, cred, email, content) ==
    /\ PostMessageStatus(id, cred, email, content) = 201
          => Len(messages) < MaxMessages
    /\ messages' = PostMessageStore(id, cred, email, content)
    /\ mail' = IF PostMessageStatus(id, cred, email, content) = 201
               THEN mail \cup
                    MessageMail(PostMessageSender(cred), content, Len(messages) + 1)
               ELSE mail
    /\ reply' = [status |-> PostMessageStatus(id, cred, email, content)]
    /\ UNCHANGED <<requests, pc, body, response, rival, rf, now, authVars, feed, refunds>>

\* GET /chat/:requestId/unread-count
UnreadCount(id, cred) ==
    /\ reply' = IF requireAuth(cred)
                THEN [status |-> 200, unread_count |-> getUnreadCountForAdmin(id)]
                ELSE [status |-> 401]
    /\ UNCHANGED <<requests, pc, body, response, rival, rf, now, messages, mail, authVars, feed, refunds>>

\* the answer of GET /chat/:requestId/messages
GetMessagesStatus(id, cred, email) ==
    IF id > Len(requests) THEN 404
    ELSE IF email = <<>> /\ ~optionalAuth("GET", cred) THEN 401
    ELSE IF email # <<>> /\ ~EmailMatches(email, requests[id]) THEN 403
    ELSE 200

\* the answer of GET /chat/:requestId/stream: 200 is the opened event stream
StreamStatus(id, cred, email) ==
    IF id > Len(requests) THEN 404
    ELSE IF ~optionalAuth("GET", cred)
            /\ (email = <<>> \/ ~EmailMatches(email, requests[id])) THEN 401
    ELSE 200

\* getMessagesByRequestId(requestId)
getMessagesByRequestId(id) ==
    SelectSeq(messages, LAMBDA m : m.request_id = id)

\* GET /chat/:requestId/messages
GetMessages(id, cred, email) ==
    /\ reply' = IF GetMessagesStatus(id, cred, email) = 200
                THEN [status |-> 200, messages |-> Len(getMessagesByRequestId(id))]
                ELSE [status |-> GetMessagesStatus(id, cred, email)]
    /\ UNCHANGED <<requests, pc, body, response, rival, rf, now, messages, mail, authVars, feed, refunds>>

\* ids a caller may name: those of the stored requests and one beyond
RequestIds == 1..(Len(requests) + 1)

InitChat ==
    /\ requests = <<>>
    /\ pc = [c \in Customers |-> "idle"]
    /\ body = [c \in Customers |-> <<>>]
    /\ response = [c \in Customers |-> NoResponse]
    /\ rival = [c \in Customers |-> {}]
    /\ rf = RfNone
    /\ ChatIdle
    /\ AuthIdle
    /\ feed = FeedNone
    /\ refunds = 0

\* no token at all, and a valid access token in the Authorization header
NoCredential == [header |-> "none", query |-> "none"]
AdminCredential == [header |-> "access", query |-> "none"]

\* the callers of SpecChat: the customer by email and the admin by token
ChatCallers ==
    { [cred |-> NoCredential, email |-> <<"a","@","X">>],
      [cred |-> AdminCredential, email |-> <<>>] }

NextChat ==
    \/ Tick
    \/ PostHelpRequest(<<"#","1","0","0","1">>)
    \/ \E id \in RequestIds, who \in ChatCallers, content \in MessageContents :
          PostMessage(id, who.cred, who.email, content)
    \/ \E id \in RequestIds, who \in ChatCallers : UnreadCount(id, who.cred)
    \/ \E id \in RequestIds, who \in ChatCallers :
          GetMessages(id, who.cred, who.email)

SpecChat == InitChat /\ [][NextChat]_vars

\* the chat endpoints called with every combination of tokens and email
\* parameter, at one instant of the clock (specification SpecChatAuth)
NextChatAuth ==
    \/ PostHelpRequest(<<"#","1","0","0","1">>)
    \/ \E id \in RequestIds, cred \in Credentials, email \in EmailParams,
          content \in MessageContents : PostMessage(id, cred, email, content)
    \/ \E id \in RequestIds, cred \in Credentials, email \in EmailParams :
          GetMessages(id, cred, email)

SpecChatAuth == InitChat /\ [][NextChatAuth]_vars

----------------------------------------------------------------------------
(* Admin actions on the full row (specification SpecAdmin): PATCH, the       *)
(* provider lookup and the provider cancel and refund endpoints, each called *)
(* with a valid access token of admin1, on the one request of the table,     *)
(* while the database clock advances.  The refund service call is taken as   *)
(* a whole here; SpecRefund has its steps, and Spec has the tables with      *)
(* several requests for one order.                                           *)

\* the provider's id of the order the request names
ShopifyOrderId == 7

\* req.body of PATCH /help-requests/:id: status and shopify_order_id, either
\* of which may be missing ("undefined", 0)
UpdateBodies ==
    [status : HelpRequestStatus \cup {"undefined"}, shopify_order_id : {0, ShopifyOrderId}]

\* a status that never stamps the processing columns
NeverProcessed(status) == FALSE

\* the status for which update sets processed_at (and processed_by)
Processed(status) == status \in {"completed", "rejected"}

\* update(id, body, processedBy) on the full row: the status column goes
\* through the unique index as in update above; one UPDATE statement sets all
\* columns or, when it is refused, none
updateRequest(rows, id, fields, processedBy) ==
    IF id > Len(rows) \/ UpdateRefused(rows, id, fields.status) THEN rows
    ELSE [update(rows, id, fields.status) EXCEPT
            ![id].shopify_order_id =
                IF fields.shopify_order_id # 0 THEN fields.shopify_order_id ELSE @,
            ![id].processed_at = IF Processed(fields.status) THEN now ELSE @,
            ![id].processed_by =
                IF Processed(fields.status) /\ processedBy # "null"
                THEN processedBy ELSE @]

\* PATCH /help-requests/:id with the whole body
PatchRequest(id, fields) ==
    /\ requests' = updateRequest(requests, id, fields, "admin1")
    /\ reply' = [status |-> PatchStatus(requests, id, fields.status)]
    /\ UNCHANGED <<pc, body, response, rival, rf, now, messages, mail, authVars, feed, refunds>>

\* the stored order id alone, a looked-up one dropped
StoredOrderId(row, lookup) == row.shopify_order_id

\* the order id the cancel and refund routes resolve: the stored one, else
\* the one findOrderByName returns (0 when it finds none)
ResolvedOrderId(row, lookup) ==
    IF row.shopify_order_id # 0 THEN row.shopify_order_id
    ELSE IF lookup = "ok" THEN ShopifyOrderId
    ELSE 0

\* the answer of a provider-action route before its service call: 404 for an
\* unknown request or order, 500 when the lookup threw, 0 when it goes on
ResolveStatus(rows, id, lookup) ==
    IF id > Len(rows) THEN 404
    ELSE IF rows[id].shopify_order_id # 0 THEN 0
    ELSE IF lookup = "order_not_found" THEN 404
    ELSE IF lookup = "failed" THEN 500
    ELSE 0

\* the status the cancel route's catch clause answers with
CancelErrorStatus(outcome) ==
    IF outcome = "rejected_422" THEN 422 ELSE 500

\* the answer of POST /help-requests/:id/shopify/cancel
CancelStatus(rows, id, lookup, outcome) ==
    IF ResolveStatus(rows, id, lookup) # 0 THEN ResolveStatus(rows, id, lookup)
    ELSE IF outcome = "ok" THEN 200
    ELSE CancelErrorStatus(outcome)

\* the answer of POST /help-requests/:id/shopify/refund
RefundStatus(rows, id, lookup, outcome) ==
    IF ResolveStatus(rows, id, lookup) # 0 THEN ResolveStatus(rows, id, lookup)
    ELSE IF outcome = "ok" THEN 200
    ELSE ErrorStatus(outcome)

\* the table after a provider-action route that completes the request whatever
\* it answers
CompletedWhatever(rows, id, lookup, status) ==
    IF id <= Len(rows)
    THEN updateRequest(rows, id,
            [status |-> "completed",
             shopify_order_id |-> ShopifyOrderId], "admin1")
    ELSE rows

\* the table after a provider-action route that answered with status
CompletedBy(rows, id, lookup, status) ==
    IF status = 200
    THEN updateRequest(rows, id,
            [status |-> "completed",
             shopify_order_id |-> ResolvedOrderId(rows[id], lookup)], "admin1")
    ELSE rows

\* POST /help-requests/:id/shopify/lookup
LookupOrder(id, lookup) ==
    /\ requests' = IF id <= Len(requests) /\ lookup = "ok"
                   THEN updateRequest(requests, id,
                           [status |-> "undefined",
                            shopify_order_id |-> ShopifyOrderId], "admin1")
                   ELSE requests
    /\ reply' = [status |-> IF id > Len(requests) \/ lookup = "order_not_found"
                            THEN 404
                            ELSE IF lookup = "failed" THEN 500 ELSE 200]
    /\ UNCHANGED <<pc, body, response, rival, rf, now, messages, mail, authVars, feed, refunds>>

\* POST /help-requests/:id/shopify/cancel
CancelRequest(id, lookup, outcome) ==
    /\ requests' = CompletedBy(requests, id, lookup,
                               CancelStatus(requests, id, lookup, outcome))
    /\ reply' = [status |-> CancelStatus(requests, id, lookup, outcome),
                 action |-> "cancel"]
    /\ UNCHANGED <<pc, body, response, rival, rf, now, messages, mail, authVars, feed, refunds>>

\* the provider is followed up to this many refunds of the order
MaxRefunds == 2

\* the refunds POST /orders/:id/refunds.json creates in one call of the refund
\* route: the route reaches the provider whatever the status of the request,
\* and sends no idempotency key
RefundsCreated(rows, id, lookup, outcome) ==
    IF ResolveStatus(rows, id, lookup) = 0 /\ outcome = "ok" THEN 1 ELSE 0

\* POST /help-requests/:id/shopify/refund, refundFullOrder or
\* refundPartialOrder taken as one call with its outcome
RefundRequest(id, lookup, outcome) ==
    /\ RefundStatus(requests, id, lookup, outcome) = 200 => refunds < MaxRefunds
    /\ requests' = CompletedBy(requests, id, lookup,
                               RefundStatus(requests, id, lookup, outcome))
    /\ refunds' = refunds + RefundsCreated(requests, id, lookup, outcome)
    /\ reply' = [status |-> RefundStatus(requests, id, lookup, outcome),
                 action |-> "refund"]
    /\ UNCHANGED <<pc, body, response, rival, rf, now, messages, mail, authVars, feed>>

LookupOutcomes == {"ok", "order_not_found", "failed"}

CallOutcomes == {"ok", "rejected_422", "rejected_400", "failed"}

NextAdmin ==
    \/ Tick
    \/ requests = <<>> /\ PostHelpRequest(<<"#","1","0","0","1">>)
    \/ \E id \in RequestIds, fields \in UpdateBodies : PatchRequest(id, fields)
    \/ \E id \in RequestIds, lookup \in LookupOutcomes : LookupOrder(id, lookup)
    \/ \E id \in RequestIds, lookup \in LookupOutcomes, out \in CallOutcomes :
          CancelRequest(id, lookup, out)
    \/ \E id \in RequestIds, lookup \in LookupOutcomes, out \in CallOutcomes :
          RefundRequest(id, lookup, out)

SpecAdmin == InitChat /\ [][NextAdmin]_vars

----------------------------------------------------------------------------
(* Properties of the chat (specification SpecChat) *)

\* creation times of the admin-sent messages of request id
AdminMessageTimes(id) ==
    { messages[i].created_at : i \in
        { j \in 1..Len(messages) :
            messages[j].request_id = id /\ messages[j].sender = "admin" } }

\* the later of the request's creation time and the creation time of its
\* most recent admin-sent message
LastSeenByAdmin(id) ==
    LET T0 == requests[id].created_at
    IN  IF \E t \in AdminMessageTimes(id) : t > T0
        THEN CHOOSE t \in AdminMessageTimes(id) :
                \A u \in AdminMessageTimes(id) : u <= t
        ELSE T0

\* C11: in every reachable state, for every stored request, the unread count
\* for the admin is the number of the request's customer-sent messages created
\* strictly after the later of the request's creation time and the creation
\* time of its most recent admin-sent message.
C11_UnreadCountSinceLastAdminMessage ==
    \A id \in 1..Len(requests) :
        getUnreadCountForAdmin(id) =
            Cardinality({ i \in 1..Len(messages) :
                            /\ messages[i].request_id = id
                            /\ messages[i].sender = "customer"
                            /\ messages[i].created_at > LastSeenByAdmin(id) })

\* C11 witness: request created at T0, customer message at T2, admin message
\* at T1 > T2, customer message at T3 > T1; the admin was answered an unread
\* count of 1.
C11_Witness ==
    /\ Len(requests) = 1 /\ Len(messages) = 3
    /\ messages[1].sender = "customer"
    /\ messages[2].sender = "admin"
    /\ messages[3].sender = "customer"
    /\ requests[1].created_at < messages[1].created_at
    /\ messages[1].created_at < messages[2].created_at
    /\ messages[2].created_at < messages[3].created_at
    /\ reply = [status |-> 200, unread_count |-> 1]

\* the caller presents a valid admin access token where POST reads it
PresentsAdminToken(cred) == cred.header = "access"

\* the email parameter names the request's customer, letter case aside
NamesCustomer(email, id) ==
    email # <<>> /\ toLowerCase(email) = toLowerCase(requests[id].customer_email)

\* C12: in every reachable state, for every stored request and every post
\* with a text or an attachment: with a valid admin access token the post is
\* answered 201 and stored with sender admin, whatever the email parameter;
\* otherwise with an email matching the customer's case-insensitively it is
\* answered 201 and stored with sender customer; otherwise it is answered 401
\* and the table is left as it was.
C12_ChatPostAuthorization ==
    \A id \in 1..Len(requests), cred \in Credentials, email \in EmailParams,
       content \in { c \in MessageContents : Trim(c.body) # <<>> \/ c.attachment } :
        LET status == PostMessageStatus(id, cred, email, content)
            stored == PostMessageStore(id, cred, email, content)
        IN  IF PresentsAdminToken(cred)
            THEN /\ status = 201
                 /\ Len(stored) = Len(messages) + 1
                 /\ Last(stored).sender = "admin"
            ELSE IF NamesCustomer(email, id)
            THEN /\ status = 201
                 /\ Len(stored) = Len(messages) + 1
                 /\ Last(stored).sender = "customer"
            ELSE status = 401 /\ stored = messages

\* C12 witness: the customer's post and the admin's post are stored with
\* their senders, and a later post was answered 401 and stored nothing.
C12_Witness ==
    /\ Len(messages) = 2
    /\ messages[1].sender = "customer"
    /\ messages[2].sender = "admin"
    /\ reply = [status |-> 401]

\* C18 (as claimed): in every reachable state, for every stored request and
\* every combination of presented tokens and email parameter, the live feed
\* is opened exactly when the message history is answered.
C18_FeedAccessAsHistoryAccess ==
    \A id \in 1..Len(requests), cred \in Credentials, email \in EmailParams :
        (StreamStatus(id, cred, email) = 200)
            <=> (GetMessagesStatus(id, cred, email) = 200)

----------------------------------------------------------------------------
(* Properties of the admin actions (specifications SpecAdmin and Spec) *)

\* C13: in every reachable state, for every stored request, every update body
\* and every acting admin (or none): an update whose new status is completed
\* or rejected sets processed_at to the time of the update and processed_by
\* to the acting admin when there is one; every other update leaves both
\* columns as they were.
C13_ProcessedStampedOnTerminalStatus ==
    \A id \in 1..Len(requests), fields \in UpdateBodies,
       by \in {"null", "admin1", "admin2"} :
        LET before == requests[id]
            after == updateRequest(requests, id, fields, by)[id]
        IN  IF fields.status \in {"completed", "rejected"}
            THEN /\ after.processed_at = now
                 /\ after.processed_by =
                        IF by # "null" THEN by ELSE before.processed_by
            ELSE /\ after.processed_at = before.processed_at
                 /\ after.processed_by = before.processed_by

\* C13 witness: the request was stamped by admin1 after its creation, is in a
\* non-terminal status again, and a later PATCH answered 200 has left the
\* stamp.
C13_Witness ==
    /\ Len(requests) = 1
    /\ requests[1].status = "in_progress"
    /\ requests[1].processed_by = "admin1"
    /\ requests[1].created_at < requests[1].processed_at
    /\ requests[1].processed_at < now
    /\ reply = [status |-> 200]

\* C14: in every reachable state, for every stored request in whatever
\* status, a cancel or refund call that reaches the provider and is accepted
\* is answered 200 and leaves the request completed, with the resolved
\* provider order id (the stored one, else the looked-up one) persisted.
C14_ProviderSuccessCompletes ==
    \A id \in 1..Len(requests), lookup \in LookupOutcomes :
        (requests[id].shopify_order_id # 0 \/ lookup = "ok") =>
            LET orderId == IF requests[id].shopify_order_id # 0
                           THEN requests[id].shopify_order_id
                           ELSE ShopifyOrderId
                cancelled == CompletedBy(requests, id, lookup,
                                CancelStatus(requests, id, lookup, "ok"))[id]
                refunded == CompletedBy(requests, id, lookup,
                                RefundStatus(requests, id, lookup, "ok"))[id]
            IN  /\ CancelStatus(requests, id, lookup, "ok") = 200
                /\ RefundStatus(requests, id, lookup, "ok") = 200
                /\ cancelled.status = "completed"
                /\ cancelled.shopify_order_id = orderId
                /\ refunded.status = "completed"
                /\ refunded.shopify_order_id = orderId

\* C14 witness: some time after its creation the request is completed by an
\* accepted cancel, stamped at that time and with the order id stored.
C14_Witness ==
    /\ Len(requests) = 1
    /\ requests[1].status = "completed"
    /\ requests[1].shopify_order_id = ShopifyOrderId
    /\ requests[1].processed_at = now
    /\ requests[1].created_at < now
    /\ reply = [status |-> 200, action |-> "cancel"]

\* C15 (as claimed): in every reachable state of the store, for every stored
\* request and every target status, PATCH is answered 200 and leaves the
\* request in the target status.
C15_AnyStatusToAnyStatus ==
    \A id \in 1..Len(requests), t \in HelpRequestStatus :
        /\ PatchStatus(requests, id, t) = 200
        /\ update(requests, id, t)[id].status = t

\* C20 (as claimed): in every reachable state, for every stored request whose
\* cancel or refund call reaches the provider: a call rejected with 422 or
\* 400 is answered with that status by either endpoint, and any other failed
\* call with 500.
C20_ProviderStatusPassedOn ==
    \A id \in 1..Len(requests), lookup \in LookupOutcomes :
        ResolveStatus(requests, id, lookup) = 0 =>
            /\ CancelStatus(requests, id, lookup, "rejected_422") = 422
            /\ RefundStatus(requests, id, lookup, "rejected_422") = 422
            /\ CancelStatus(requests, id, lookup, "rejected_400") = 400
            /\ RefundStatus(requests, id, lookup, "rejected_400") = 400
            /\ CancelStatus(requests, id, lookup, "failed") = 500
            /\ RefundStatus(requests, id, lookup, "failed") = 500

----------------------------------------------------------------------------
(* Admin sessions (specification SpecAuth): login issues refresh tokens,     *)
(* refresh and logout present one, the database clock advances.  Each of the *)
(* three handlers runs one statement on refresh_tokens.                      *)

\* refreshExpiresMs, in ticks of the model's clock
RefreshExpires == 2

\* the refresh tokens login hands out, in this order
IssuableTokens == <<"r1", "r2">>

\* every value of body.refresh_token: the issuable ones, one that no login
\* ever returns, and "" for a missing one
RefreshTokens == {"r1", "r2", "forged", ""}

\* hashRefreshToken: the SHA-256 digest of the token
hashRefreshToken(token) == <<"sha256", token>>

\* a lookup that does not look at revoked_at
findUnexpiredToken(tokenHash) ==
    /\ tokenHash \in DOMAIN tokens
    /\ tokens[tokenHash].expires_at > now

\* findRefreshToken(tokenHash) returns a row
findRefreshToken(tokenHash) ==
    /\ tokenHash \in DOMAIN tokens
    /\ tokens[tokenHash].revoked_at = -1
    /\ tokens[tokenHash].expires_at > now

\* the answer of POST /auth/refresh
RefreshReply(token) ==
    IF token = "" THEN [status |-> 400, access_token |-> FALSE]
    ELSE IF findRefreshToken(hashRefreshToken(token))
         THEN [status |-> 200, access_token |-> TRUE]
         ELSE [status |-> 401, access_token |-> FALSE]

\* POST /auth/login: 401 for a wrong email or password; else a new refresh
\* token is stored under its hash and returned with an access token
Login(valid) ==
    /\ valid => Cardinality(DOMAIN tokens) < Len(IssuableTokens)
    /\ IF valid
       THEN LET token == IssuableTokens[Cardinality(DOMAIN tokens) + 1]
            IN  /\ tokens' = tokens @@
                      (hashRefreshToken(token) :>
                          [user_id |-> "admin1",
                           expires_at |-> now + RefreshExpires,
                           revoked_at |-> -1])
                /\ reply' = [status |-> 200, access_token |-> TRUE,
                             refresh_token |-> token]
       ELSE /\ tokens' = tokens
            /\ reply' = [status |-> 401, access_token |-> FALSE,
                         refresh_token |-> ""]
    /\ UNCHANGED <<requests, pc, body, response, rival, rf, now, messages, mail,
                   loggedOut, feed, refunds>>

\* POST /auth/refresh
Refresh(token) ==
    /\ reply' = RefreshReply(token)
    /\ UNCHANGED <<requests, pc, body, response, rival, rf, now, messages, mail,
                   authVars, feed, refunds>>

\* revokeRefreshToken(tokenHash): the table after the UPDATE
revokeRefreshToken(tokenHash) ==
    IF tokenHash \in DOMAIN tokens
    THEN [tokens EXCEPT ![tokenHash].revoked_at = now]
    ELSE tokens

\* POST /auth/logout
Logout(token) ==
    /\ tokens' = IF token # "" THEN revokeRefreshToken(hashRefreshToken(token))
                 ELSE tokens
    /\ loggedOut' = IF token # "" THEN loggedOut \cup {token} ELSE loggedOut
    /\ reply' = [status |-> 200, access_token |-> FALSE]
    /\ UNCHANGED <<requests, pc, body, response, rival, rf, now, messages, mail, feed, refunds>>

\* body.refresh_token of a refresh or logout call: a token is 32 random
\* bytes, so a caller presents one a login has returned, or one that none
\* ever returns, or nothing
PresentedTokens ==
    { IssuableTokens[k] : k \in 1..Cardinality(DOMAIN tokens) } \cup {"forged", ""}

NextAuth ==
    \/ Tick
    \/ \E valid \in BOOLEAN : Login(valid)
    \/ \E token \in PresentedTokens : Refresh(token)
    \/ \E token \in PresentedTokens : Logout(token)

SpecAuth == InitChat /\ [][NextAuth]_vars

\* the token was returned by a login
Issued(token) ==
    \E k \in 1..Cardinality(DOMAIN tokens) : IssuableTokens[k] = token

\* C16: in every reachable state a refresh is answered 401 and without an
\* access token when it presents a refresh token for which logout has
\* answered, one that no login returned, or an issued one whose expiry time has
\* been reached.
C16_RefreshRejectedAfterLogout ==
    \A token \in RefreshTokens \ {""} :
        (\/ token \in loggedOut
         \/ ~Issued(token)
         \/ Issued(token) /\ tokens[<<"sha256", token>>].expires_at <= now)
        => RefreshReply(token) = [status |-> 401, access_token |-> FALSE]

\* C16 witness: r1 was issued and logged out before its expiry, and the
\* refresh after that was answered 401.
C16_Witness ==
    /\ "r1" \in loggedOut
    /\ tokens[<<"sha256", "r1">>].expires_at > now
    /\ tokens[<<"sha256", "r1">>].revoked_at >= 0
    /\ reply = [status |-> 401, access_token |-> FALSE]

----------------------------------------------------------------------------
(* The live feed GET /chat/:requestId/stream (specification SpecFeed).  One  *)
(* caller opens the feed of a request.  The interval callback is an async    *)
(* function: each firing of the timer starts a poll that sends its query and *)
(* is suspended until the query settles, so the polls of one feed are in     *)
(* flight side by side, and the close handler and the catch branch of        *)
(* another poll run between the two halves of a poll.  The record feed       *)
(* holds:                                                                    *)
(*   interval       the timer of setInterval is armed                        *)
(*   polls          the polls in flight: -1 while the query has not          *)
(*                  answered, else the number of rows it returned            *)
(*   lastMessageId  0 for null                                               *)
(*   written        the frames given to res.write, in order: 0 for the       *)
(*                  'connected' frame, else the id of the message          *)
(*   ended          res.end() has been called                                *)
(*   writtenAtEnd   Len(written) at the first call of res.end()              *)
(*   closed         the 'close' event of the request has been delivered      *)
(*   polled         a poll of this feed has run the part after its await     *)
(*   skew           how far the database clock now, which stamps created_at, *)
(*                  is ahead of the clock of new Date() in this process      *)

MaxPolls == 2

\* the feeds are followed up to this many frames given to res.write
MaxWritten == 4

\* the database clock is the clock of the process, or one instant ahead of it
Skews == {0, 1}

\* new Date() in the process that serves the feed
ServerClock == now - feed.skew

\* a sequence without its k-th element
RemoveAt(seq, k) ==
    [i \in 1..(Len(seq) - 1) |-> IF i < k THEN seq[i] ELSE seq[i + 1]]

\* GET /chat/:requestId/stream up to the first await of the timer: the
\* refusals, else the 'connected' frame and setInterval
OpenStream(id, cred, email, skew) ==
    /\ feed.pc = "none"
    /\ reply' = [status |-> StreamStatus(id, cred, email)]
    /\ feed' = IF StreamStatus(id, cred, email) = 200
               THEN [feed EXCEPT !.pc = "open", !.id = id, !.interval = TRUE,
                                 !.written = <<0>>, !.skew = skew]
               ELSE feed
    /\ UNCHANGED <<requests, pc, body, response, rival, rf, now, messages,
                   mail, authVars, refunds>>

\* the timer fires: the callback runs up to await getMessagesByRequestId
TimerFires ==
    /\ feed.interval
    /\ Len(feed.polls) < MaxPolls
    /\ feed' = [feed EXCEPT !.polls = Append(@, -1)]
    /\ UNCHANGED <<requests, pc, body, response, rival, rf, chatVars, authVars, refunds>>

\* the database answers the query of the k-th poll in flight
QueryAnswers(k) ==
    /\ k \in 1..Len(feed.polls)
    /\ feed.polls[k] = -1
    /\ feed' = [feed EXCEPT !.polls[k] = Len(getMessagesByRequestId(feed.id))]
    /\ UNCHANGED <<requests, pc, body, response, rival, rf, chatVars, authVars, refunds>>

\* newMessages of a poll whose query returned the first n rows of the request
newMessages(n) ==
    IF feed.lastMessageId # 0
    THEN SelectSeq(SubSeq(getMessagesByRequestId(feed.id), 1, n),
                   LAMBDA m : m.id # feed.lastMessageId
                              /\ m.created_at > ServerClock)
    ELSE IF n = 0 THEN <<>>
    ELSE <<getMessagesByRequestId(feed.id)[n]>>

\* the ids of a sequence of messages
MessageIds(ms) == [i \in 1..Len(ms) |-> ms[i].id]

\* lastMessageId after the loop over the messages ms
LastIdAfter(last, ms) ==
    IF ms = <<>> THEN last
    ELSE Max(last, CHOOSE i \in {ms[j].id : j \in 1..Len(ms)} :
                       \A j \in 1..Len(ms) : ms[j].id <= i)

\* the k-th poll resumes after its await: res.write for each new message
PollResumes(k) ==
    /\ k \in 1..Len(feed.polls)
    /\ feed.polls[k] >= 0
    /\ Len(feed.written) + Len(newMessages(feed.polls[k])) <= MaxWritten
    /\ feed' = [feed EXCEPT
                  !.polls = RemoveAt(@, k),
                  !.polled = TRUE,
                  !.written = @ \o MessageIds(newMessages(feed.polls[k])),
                  !.lastMessageId =
                      LastIdAfter(@, newMessages(feed.polls[k]))]
    /\ UNCHANGED <<requests, pc, body, response, rival, rf, chatVars, authVars, refunds>>

\* res.end(), called by the catch branch and by the close handler
EndOf(f) ==
    [f EXCEPT !.interval = FALSE, !.ended = TRUE,
              !.writtenAtEnd = IF f.ended THEN @ ELSE Len(f.written)]

\* the query of the k-th poll fails: catch, clearInterval, res.end()
PollFails(k) ==
    /\ k \in 1..Len(feed.polls)
    /\ feed.polls[k] = -1
    /\ feed' = EndOf([feed EXCEPT !.polls = RemoveAt(@, k)])
    /\ UNCHANGED <<requests, pc, body, response, rival, rf, chatVars, authVars, refunds>>

\* the caller disconnects: req.on('close'), clearInterval, res.end()
Disconnect ==
    /\ feed.pc = "open"
    /\ ~feed.closed
    /\ feed' = EndOf([feed EXCEPT !.closed = TRUE])
    /\ UNCHANGED <<requests, pc, body, response, rival, rf, chatVars, authVars, refunds>>

NextFeed ==
    \/ Tick
    \/ requests = <<>> /\ PostHelpRequest(<<"#","1","0","0","1">>)
    \/ \E who \in ChatCallers :
          PostMessage(1, who.cred, who.email,
                      [body |-> <<"h","i">>, attachment |-> FALSE])
    \/ \E id \in RequestIds, who \in ChatCallers, skew \in Skews :
          OpenStream(id, who.cred, who.email, skew)
    \/ TimerFires
    \/ \E k \in 1..MaxPolls : QueryAnswers(k)
    \/ \E k \in 1..MaxPolls : PollResumes(k)
    \/ \E k \in 1..MaxPolls : PollFails(k)
    \/ Disconnect

SpecFeed == InitChat /\ [][NextFeed]_vars

\* C17: once res.end() has been called on a feed, by the close handler or by
\* the catch branch of a poll, its timer is cleared and res.write is not
\* called on it again, whatever polls were in flight.
C17_NothingWrittenAfterEnd ==
    feed.ended => /\ ~feed.interval
                  /\ Len(feed.written) = feed.writtenAtEnd

\* the timer alone: it is cleared once res.end() has been called
C17_TimerReleased == feed.ended => ~feed.interval

----------------------------------------------------------------------------
(* Notification dispatch (specification SpecNotify).  The handlers call the  *)
(* notify functions without await and go on to answer 201; each call is an   *)
(* async function whose promise settles later: the mail was sent (or no      *)
(* transporter is configured), or sending failed, which the function's own   *)
(* catch or the .catch of the handler logs.                                  *)

DispatchOutcomes == {"sent", "failed"}

\* the dispatch m settles with the outcome
Settles(m, outcome) ==
    /\ m \in mail
    /\ m.outcome = "pending"
    /\ mail' = (mail \ {m}) \cup {[m EXCEPT !.outcome = outcome]}
    /\ UNCHANGED <<requests, pc, body, response, rival, rf, now, messages,
                   reply, authVars, feed, refunds>>

\* every dispatch a handler can have made
Dispatches ==
    [to : {"admin", "customer"}, about : {"request", "message"},
     id : 1..MaxMessages, outcome : {"pending"}]

NextNotify ==
    \/ PostHelpRequest(<<"#","1","0","0","1">>)
    \/ \E id \in RequestIds, who \in ChatCallers, content \in MessageContents :
          PostMessage(id, who.cred, who.email, content)
    \/ \E m \in Dispatches, outcome \in DispatchOutcomes : Settles(m, outcome)

SpecNotify == InitChat /\ [][NextNotify]_vars

\* the row a dispatch is about is in its table
TriggerStored(m) ==
    IF m.about = "request" THEN m.id \in 1..Len(requests)
    ELSE m.id \in 1..Len(messages)

\* a dispatch settles as failed in this step
DispatchFails ==
    \E m \in mail : /\ m.outcome = "pending"
                    /\ [m EXCEPT !.outcome = "failed"] \in mail'
                    /\ [m EXCEPT !.outcome = "failed"] \notin mail

----------------------------------------------------------------------------
(* The live feed while the caller stays connected (specification             *)
(* SpecFeedLive): no disconnect and no failing query; the timer keeps        *)
(* firing, and every query that was sent answers and its poll resumes.  The  *)
(* database clock and the clock of the process agree.                        *)

NextFeedLive ==
    \/ Tick
    \/ requests = <<>> /\ PostHelpRequest(<<"#","1","0","0","1">>)
    \/ \E who \in ChatCallers :
          PostMessage(1, who.cred, who.email,
                      [body |-> <<"h","i">>, attachment |-> FALSE])
    \/ \E id \in RequestIds, who \in ChatCallers :
          OpenStream(id, who.cred, who.email, 0)
    \/ TimerFires
    \/ \E k \in 1..MaxPolls : QueryAnswers(k)
    \/ \E k \in 1..MaxPolls : PollResumes(k)

SpecFeedLive ==
    /\ InitChat
    /\ [][NextFeedLive]_vars
    /\ WF_vars(TimerFires)
    /\ \A k \in 1..MaxPolls : WF_vars(QueryAnswers(k))
    /\ \A k \in 1..MaxPolls : WF_vars(PollResumes(k))

\* the message with this id has been given to res.write on the feed
Emitted(i) == \E k \in 2..Len(feed.written) : feed.written[k] = i

\* C21: every message stored while the feed is open is eventually given to
\* res.write on that feed, when the caller stays connected, the timer keeps
\* firing and no query fails.
C21_StoredMessagesEmitted ==
    \A i \in 1..MaxMessages :
        []((feed.pc = "open" /\ Len(messages) < i)
              => [](Len(messages) >= i => <>Emitted(i)))

\* the messages whose ids this step adds to written
NewlyWritten ==
    { feed'.written[k] : k \in (Len(feed.written) + 1)..Len(feed'.written) }

\* C22: once a poll of the feed has run, a later poll gives a message to
\* res.write only if its id differs from lastMessageId and its created_at is
\* after the clock at that poll; only the first poll writes without that test.
C22_LaterPollsTestTimestamp ==
    [][feed.polled =>
          \A i \in NewlyWritten :
              /\ i # feed.lastMessageId
              /\ messages[i].created_at > ServerClock]_vars

\* C23: no message is given to res.write twice on one feed, also with two
\* polls of the feed in flight at once.
C23_NoMessageEmittedTwice ==
    \A j, k \in 1..Len(feed.written) :
        feed.written[j] = feed.written[k] => j = k

\* C24: calling the refund action again for the same help request, also when
\* the request is already completed, creates no second refund at the provider.
C24_NoSecondRefund == refunds <= 1

----------------------------------------------------------------------------
(* Further properties of the refund run (specification SpecRefund) *)

\* body.refundLineItems is an array without entries
EmptyRequested ==
    rf.refundLineItems.given /\ rf.refundLineItems.entries = <<>>

\* C25: a run whose body gives an empty refundLineItems array sends nothing to
\* the provider, ends in an error answer, and never carries the line items of
\* a full refund.
C25_EmptyLineItemsRefused ==
    EmptyRequested =>
        /\ rf.sent = {}
        /\ rf.items # refundFullOrder.items
        /\ rf.pc \in {"start", "done"}
        /\ rf.pc = "done" => rf.code >= 400

\* the total quantity the items carry for one line item id
RECURSIVE QuantityFor(_, _)
QuantityFor(items, id) ==
    IF items = <<>> THEN 0
    ELSE (IF Head(items).line_item_id = id THEN Head(items).quantity ELSE 0)
         + QuantityFor(Tail(items), id)

\* C26: the refund_line_items sent to the provider carry, for each line item
\* id, a total quantity that is at most the quantity of that line item on the
\* order, also when the body names the id in several entries.
C26_QuantityWithinOrder ==
    \A id \in DOMAIN OrderLineItems :
        QuantityFor(rf.items, id) <= OrderLineItems[id]

----------------------------------------------------------------------------
(* Further properties of the admin actions (specification SpecAdmin) *)

\* this step is a cancel or refund route that does not answer 200
ProviderActionFails ==
    /\ "action" \in DOMAIN reply'
    /\ reply'.status # 200

ScalingApplies ==
    /\ CreateSent
    /\ rf.refundAmount # <<>> /\ rf.refundAmount[1] > 0
    /\ SuggestedComplete # <<>>
    /\ SumAmounts(SuggestedComplete) > 0
    /\ Abs(rf.refundAmount[1] - SumAmounts(SuggestedComplete)) > 1

\* the suggested amount times M / S, rounded to cents
ScaledAmount(t) ==
    RoundToCents(t.amount * rf.refundAmount[1], SumAmounts(SuggestedComplete))

\* the sum of the scaled amounts of the transactions
RECURSIVE ScaledTotal(_)
ScaledTotal(ts) ==
    IF ts = <<>> THEN 0 ELSE ScaledAmount(Head(ts)) + ScaledTotal(Tail(ts))

\* the rounding residual: M less the scaled total, rounded to cents
Residual ==
    RoundToCents(rf.refundAmount[1] - ScaledTotal(SuggestedComplete), 1)

\* C28: when scaling applies, the transactions submitted are as many as the
\* complete suggested ones, in their order and with their parent_id and
\* gateway; every one but the first carries its scaled amount, and the first
\* carries its scaled amount plus the whole residual.
C28_ScalingKeepsStructure ==
    ScalingApplies =>
        /\ Len(rf.transactions) = Len(SuggestedComplete)
        /\ \A i \in 1..Len(SuggestedComplete) :
              /\ rf.transactions[i].parent_id = SuggestedComplete[i].parent_id
              /\ rf.transactions[i].gateway = SuggestedComplete[i].gateway
              /\ i > 1 => rf.transactions[i].amount
                             = ScaledAmount(SuggestedComplete[i])
        /\ rf.transactions[1].amount
              = ScaledAmount(SuggestedComplete[1]) + Residual

----------------------------------------------------------------------------
(* The chat endpoints called with a valid access token in the query          *)
(* parameter and no Authorization header (specification SpecChatQuery): the  *)
(* posts, the reads, and the opening of the feed without an email.           *)

QueryCredential == [header |-> "none", query |-> "access"]

NextChatQuery ==
    \/ PostHelpRequest(<<"#","1","0","0","1">>)
    \/ \E id \in RequestIds, email \in EmailParams, content \in MessageContents :
          PostMessage(id, QueryCredential, email, content)
    \/ \E id \in RequestIds, email \in EmailParams :
          GetMessages(id, QueryCredential, email)
    \/ \E id \in RequestIds : OpenStream(id, QueryCredential, <<>>, 0)

SpecChatQuery == InitChat /\ [][NextChatQuery]_vars

\* C29: a POST to the chat message endpoint with the access token only in the
\* query parameter is never stored as admin; without an email matching the
\* customer's it is answered 401 and the table is left as it was; the message
\* history and the feed are answered 200 for the same token without an email.
C29_QueryTokenNeverPosts ==
    \A id \in 1..Len(requests) :
        /\ \A email \in EmailParams, content \in MessageContents :
              LET status == PostMessageStatus(id, QueryCredential, email, content)
                  stored == PostMessageStore(id, QueryCredential, email, content)
              IN  /\ ~NamesCustomer(email, id)
                        => status = 401 /\ stored = messages
                  /\ status = 201 => Last(stored).sender = "customer"
        /\ GetMessagesStatus(id, QueryCredential, <<>>) = 200
        /\ StreamStatus(id, QueryCredential, <<>>) = 200

\* C29 witness: with the token in the query parameter the feed of request 1
\* has been opened, and a post without an email was answered 401 and stored
\* nothing.
C29_Witness ==
    /\ Len(requests) = 1
    /\ feed.pc = "open"
    /\ messages = <<>>
    /\ reply = [status |-> 401]

----------------------------------------------------------------------------
(* Further properties of the request store (specification Spec) *)

\* the string has no leading '#' and no white space at either end
Canonical(s) ==
    s # <<>> => /\ Head(s) # "#"
                /\ Head(s) # " "
                /\ s[Len(s)] # " "

\* C30: every order number that create has stored is without leading '#' and
\* without surrounding white space, and normalising it again gives the same
\* string.
C30_StoredOrderNumberCanonical ==
    \A id \in 1..Len(requests) :
        /\ Canonical(requests[id].order_number)
        /\ NormalizeOrderNumber(requests[id].order_number)
              = requests[id].order_number

====
